---- MODULE Spec2Model ----
(***************************************************************************)
(* Model of the synchronization scripts: the reconcile-and-update engines  *)
(* of the app contacts updater (contacts-app/contacts_to_app.py), the      *)
(* documents updater, the portal contacts updater and the newspaper        *)
(* updaters, together with the runners (main) that drive them.             *)
(*                                                                         *)
(* A behaviour runs one script: Init picks the script, and the variables   *)
(* of the other scripts stay at their initial value.                       *)
(***************************************************************************)
EXTENDS Integers, Sequences, FiniteSets, TLC

VARIABLES
    script,     \* which script this behaviour runs
    store,      \* app contacts: the list stored at firebase_route (<<>> is "no data")
    run,        \* app contacts: what the last call of update() did
    newsStore,  \* newspapers: the entries stored at firebase_route, keyed by id
    newsRun,    \* newspapers: what the last run of main() did
    db,         \* documents: the Folder and File tables, and the next fresh row id
    docRun,     \* documents: what the last call of update() did
    docMain,    \* documents: where main() is, the folders it attempted, its status
    cMain,      \* app contacts: main() over the contact types, with their stores
    portalDb,   \* portal contacts: the contact row and the office_hours and employees rows
    portalRun,  \* portal contacts: what the last run of main() did
    fetchRun,    \* newspapers: what the last call of fetch_newspapers() was given and returned
    race,       \* app contacts: the overlapping calls of update() on one firebase_route
    cron,       \* sync manager: the jobs of the user's crontab, in file order
    sched       \* sync manager: the plan in memory and in the file, and the last save_schedule

contactsVars == <<store, run, cMain>>
newsVars == <<newsStore, newsRun>>
docVars == <<db, docRun, docMain>>
portalVars == <<portalDb, portalRun>>
extraVars == <<fetchRun, race, cron, sched>>
vars == <<script, store, run, newsStore, newsRun, db, docRun, docMain, cMain,
          portalDb, portalRun, fetchRun, race, cron, sched>>

-----------------------------------------------------------------------------
(* Bounds of the model *)

MaxNew == 2        \* records a parser returns in one fetch
MaxStored == 2     \* contact entries stored (after the sentinel) at the start
MaxReruns == 1     \* repetitions of a run with the same parsed records
MaxDocs == 2       \* documents listed on the website page of one folder
MaxRows == 2       \* File rows stored for a folder at the start
NumFolders == 2    \* folders in the configuration that main() goes through
NumTypes == 2      \* contact types in the configuration that main() goes through

-----------------------------------------------------------------------------
(* Values *)

NoneV == "None"          \* Python None as a ContactItem attribute
EmptyStr == ""           \* the empty string
Absent == "absent"       \* the key is not in the dict (dict.get gives None)

Titles == {"A", "B"}
Phones == {"p1", "p2"}
Fields == {"title", "phone", "coordinates"}

\* The ContactItem objects a parser builds: parsers set title and phone (a
\* validator gives None, a regular expression may give ""), never coordinates.
ContactItems ==
    [title : Titles, phone : {NoneV, EmptyStr} \cup Phones, coordinates : {NoneV}]

\* ContactItem.to_dict: the attributes that are neither None nor "".
to_dict(c) ==
    [k \in Fields |-> IF c[k] = NoneV \/ c[k] = EmptyStr THEN Absent ELSE c[k]]

\* Element 0 of the stored list and of every written list: None.
NullItem == [k \in Fields |-> Absent]

\* The entries found in the store at the start: well-formed ones, with or without
\* a phone and with or without a field added out of band (coordinates), and one
\* malformed entry that has no title.
StoredItems ==
    { [k \in Fields |-> CASE k = "title" -> t [] k = "phone" -> p [] OTHER -> c] :
        t \in Titles, p \in {Absent, "p1"}, c \in {Absent, "c1"} }
    \cup { [k \in Fields |-> IF k = "phone" THEN "p1" ELSE Absent] }

SeqsUpTo(S, n) == UNION { [1..m -> S] : m \in 0..n }

InitialStores ==
    {<<>>} \cup { <<NullItem>> \o s : s \in SeqsUpTo(StoredItems, MaxStored) \ {<<>>} }

-----------------------------------------------------------------------------
(* Python dict built from a list: {item.get('title'): item for item in items} *)

\* item.get('title'): the title, or None (Absent) when the entry has none.
KeyOf(item) == item["title"]

\* Keys that would be listed once for every item, repeated keys included.
DictKeysRepeated(items) == [i \in 1..Len(items) |-> KeyOf(items[i])]

\* The keys in insertion order: a repeated key keeps its first position.
RECURSIVE DictKeys(_)
DictKeys(items) ==
    IF items = <<>> THEN <<>>
    ELSE LET front == DictKeys(SubSeq(items, 1, Len(items) - 1))
             k == KeyOf(items[Len(items)])
         IN  IF \E i \in 1..Len(front) : front[i] = k THEN front ELSE Append(front, k)

\* A dict that would keep the first item of a repeated key.
DictGetFirst(items, k) ==
    items[CHOOSE i \in 1..Len(items) :
            /\ KeyOf(items[i]) = k
            /\ \A j \in 1..(i - 1) : KeyOf(items[j]) # k]

\* The value under a key: the last item with that key.
DictGet(items, k) ==
    items[CHOOSE i \in 1..Len(items) :
            /\ KeyOf(items[i]) = k
            /\ \A j \in (i + 1)..Len(items) : KeyOf(items[j]) # k]

InDict(items, k) == \E i \in 1..Len(items) : KeyOf(items[i]) = k

Range(s) == { s[i] : i \in 1..Len(s) }

-----------------------------------------------------------------------------
(* ContactDataUpdater.update_contacts *)

\* existing_contacts[1:] if existing_contacts else []
ExistingItems(existing_contacts) ==
    IF existing_contacts # <<>> THEN Tail(existing_contacts) ELSE <<>>

\* A comparison that would see added fields only, not changed values.
ItemChangesAddedOnly(existing_item, new_item) ==
    { k \in Fields : new_item[k] # Absent /\ existing_item[k] = Absent }

\* A comparison that would also see the fields that only the stored entry has.
ItemChangesBothWays(existing_item, new_item) ==
    { k \in Fields : existing_item[k] # new_item[k] }

\* The fields the loop over new_item.items() records in item_changes.
ItemChanges(existing_item, new_item) ==
    { k \in Fields :
        /\ new_item[k] # Absent
        /\ \/ existing_item[k] = Absent
           \/ existing_item[k] # new_item[k] }

\* A merge that would write the new record alone.
MergedItemNewOnly(existing_item, new_item) == new_item

\* A merge that would write the stored entry back.
MergedItemStoredOnly(existing_item, new_item) == existing_item

\* merged_item: a copy of the stored entry, each key of new_item overwritten.
MergedItem(existing_item, new_item) ==
    [k \in Fields |-> IF new_item[k] # Absent THEN new_item[k] ELSE existing_item[k]]

\* The entry appended to changes['updates'] for one title of the new data.
UpdateFor(title, new_items, existing_items) ==
    IF ~InDict(existing_items, title)
    THEN DictGet(new_items, title)
    ELSE MergedItem(DictGet(existing_items, title), DictGet(new_items, title))

\* A detection that would not look for removed titles.
DetectedNoRemoved(new_items, existing_items) ==
    \E t \in Range(DictKeys(new_items)) :
        \/ ~InDict(existing_items, t)
        \/ /\ InDict(existing_items, t)
           /\ \E k \in Fields :
                 LET e == DictGet(existing_items, t)
                     n == DictGet(new_items, t)
                 IN  /\ n[k] # Absent
                     /\ (e[k] = Absent \/ e[k] # n[k])

\* changes['detected'] as the three loops set it.
Detected(new_items, existing_items) ==
    \/ \E t \in Range(DictKeys(new_items)) :
          \/ ~InDict(existing_items, t)
          \/ /\ InDict(existing_items, t)
             /\ \E k \in Fields :
                   LET e == DictGet(existing_items, t)
                       n == DictGet(new_items, t)
                   IN  /\ n[k] # Absent
                       /\ (e[k] = Absent \/ e[k] # n[k])
    \/ \E t \in Range(DictKeys(existing_items)) : ~InDict(new_items, t)

\* The changes dict at the end of the loops.
Changes(new_contacts, existing_contacts) ==
    LET new_items == [i \in 1..Len(new_contacts) |-> to_dict(new_contacts[i])]
        existing_items == ExistingItems(existing_contacts)
        newKeys == DictKeys(new_items)
        oldKeys == DictKeys(existing_items)
    IN  [ detected |-> Detected(new_items, existing_items),
          updates  |-> <<NullItem>> \o
                       [i \in 1..Len(newKeys) |->
                           UpdateFor(newKeys[i], new_items, existing_items)],
          added    |-> SelectSeq(newKeys, LAMBDA t : ~InDict(existing_items, t)),
          modified |-> SelectSeq(newKeys, LAMBDA t :
                           /\ InDict(existing_items, t)
                           /\ ItemChanges(DictGet(existing_items, t),
                                          DictGet(new_items, t)) # {}),
          removed  |-> SelectSeq(oldKeys, LAMBDA t : ~InDict(new_items, t)) ]

\* A store that would keep a list holding only null.
FirebaseSetKeepingNull(value) == value

\* ref.set(value) of the realtime database: a list holding only null is no data.
FirebaseSet(value) ==
    IF \A i \in 1..Len(value) : value[i] = NullItem THEN <<>> ELSE value

-----------------------------------------------------------------------------
(* ContactDataUpdater.update for the contact type that is set *)

NoChanges ==
    [detected |-> FALSE, updates |-> <<NullItem>>, added |-> <<>>,
     modified |-> <<>>, removed |-> <<>>]

\* Parsers that would return an empty list instead of raising.
ParserNeverRaises(parsed, emptyOk) == FALSE

\* The parser named by the configuration: every parser but parse_drug_store_data
\* raises when it finds no record (emptyOk is FALSE for those).
ParserRaises(parsed, emptyOk) == parsed = <<>> /\ ~emptyOk

\* What update() does on the store `existing`: the step it stops at, the changes
\* dict, whether ref.set was called, the store afterwards and the value returned.
\*   fetch:   "fail" (fetch_contact_data returns None), "empty" (content is ""),
\*            "ok"
\*   readOk:  get_existing_contacts returns (else it raises)
\*   writeOk: ref.set returns (else it raises)
update(existing, fetch, emptyOk, parsed, readOk, writeOk) ==
    IF fetch # "ok"
    THEN [step |-> "fetch", changes |-> NoChanges, wrote |-> FALSE,
          after |-> existing, result |-> FALSE]
    ELSE IF ParserRaises(parsed, emptyOk)
    THEN [step |-> "parse", changes |-> NoChanges, wrote |-> FALSE,
          after |-> existing, result |-> FALSE]
    ELSE IF ~readOk
    THEN [step |-> "read", changes |-> NoChanges, wrote |-> FALSE,
          after |-> existing, result |-> FALSE]
    ELSE LET changes == Changes(parsed, existing)
         IN  IF changes.detected
             THEN [step |-> "write", changes |-> changes, wrote |-> TRUE,
                   after |-> IF writeOk THEN FirebaseSet(changes.updates) ELSE existing,
                   result |-> writeOk]
             ELSE [step |-> "nochange", changes |-> changes, wrote |-> FALSE,
                   after |-> existing, result |-> TRUE]

NoRun ==
    [kind |-> "none", fetch |-> "ok", parsed |-> <<>>, emptyOk |-> FALSE,
     before |-> <<>>, step |-> "none", changes |-> NoChanges, wrote |-> FALSE, result |-> FALSE,
     reruns |-> 0, prevOk |-> FALSE, prevWrote |-> FALSE]

RunOf(out, fetch, parsed, emptyOk, existing, reruns, prevOk, prevWrote) ==
    [kind |-> "update", fetch |-> fetch, parsed |-> parsed, emptyOk |-> emptyOk, before |-> existing,
     step |-> out.step, changes |-> out.changes, wrote |-> out.wrote,
     result |-> out.result, reruns |-> reruns, prevOk |-> prevOk,
     prevWrote |-> prevWrote]

\* One call of update() on a fresh fetch.
ContactsUpdate ==
    /\ script = "contacts"
    /\ run.kind = "none"
    /\ \E fetch \in {"fail", "empty", "ok"}, emptyOk \in BOOLEAN,
          parsed \in SeqsUpTo(ContactItems, MaxNew), readOk \in BOOLEAN,
          writeOk \in BOOLEAN :
          LET out == update(store, fetch, emptyOk, parsed, readOk, writeOk)
          IN  /\ fetch # "ok" => parsed = <<>> /\ readOk /\ writeOk /\ ~emptyOk
              /\ store' = out.after
              /\ run' = RunOf(out, fetch, parsed, emptyOk, store, 0, FALSE, FALSE)
    /\ UNCHANGED <<script, extraVars, cMain, newsVars, docVars, portalVars>>

\* update() called again when the website still gives the same content:
\* the parser returns the same records, the store is the one the last run left.
ContactsRerun ==
    /\ script = "contacts"
    /\ run.kind = "update"
    /\ run.step \notin {"fetch", "parse"}
    /\ run.reruns < MaxReruns
    /\ \E readOk \in BOOLEAN, writeOk \in BOOLEAN :
          LET out == update(store, "ok", run.emptyOk, run.parsed, readOk, writeOk)
          IN  /\ store' = out.after
              /\ run' = RunOf(out, "ok", run.parsed, run.emptyOk, store,
                              run.reruns + 1, run.result, run.wrote)
    /\ UNCHANGED <<script, extraVars, cMain, newsVars, docVars, portalVars>>

-----------------------------------------------------------------------------
(* Newspapers: NewspaperItem, compare_and_update, update/synchronize, main *)

NewsYears == {2023, 2024}
NewsReleases == {1, 2}
NewsLinks == {"l1", "l2"}

\* _parse_newspaper_item: the item of a list element "zpravodaj <release>/<year>".
ParseNewspaperItem(year, release, link) ==
    [id |-> (year * 100) + release, link |-> link, release |-> release, year |-> year]

NewsItems ==
    { ParseNewspaperItem(y, r, l) : y \in NewsYears, r \in NewsReleases, l \in NewsLinks }

\* NewspaperItem.to_dict, as stored: the four fields, and `note` for a field that
\* only the store has (Absent in every item the script builds).
NewsToDict(item) ==
    [id |-> item.id, link |-> item.link, release |-> item.release,
     year |-> item.year, note |-> Absent]

\* Entries found in the store at the start.
NewsStoredEntries ==
    { [id |-> (y * 100) + r, link |-> "l1", release |-> r, year |-> y, note |-> n] :
        y \in NewsYears, r \in NewsReleases, n \in {Absent, "n1"} }

NewsIdsOf(entries) == { e.id : e \in entries }

InitialNewsStores ==
    { S \in SUBSET NewsStoredEntries :
        /\ Cardinality(S) <= MaxStored
        /\ \A e1 \in S : \A e2 \in S : e1.id = e2.id => e1 = e2 }

NewsEntry(entries, id) == CHOOSE e \in entries : e.id = id

\* new_dict = {item.id: item.to_dict() for item in new_items}: the ids in
\* insertion order, and the value of an id (its last item).
RECURSIVE NewsKeys(_)
NewsKeys(items) ==
    IF items = <<>> THEN <<>>
    ELSE LET front == NewsKeys(SubSeq(items, 1, Len(items) - 1))
             k == items[Len(items)].id
         IN  IF \E i \in 1..Len(front) : front[i] = k THEN front ELSE Append(front, k)

NewsGet(items, id) ==
    NewsToDict(items[CHOOSE i \in 1..Len(items) :
                        /\ items[i].id = id
                        /\ \A j \in (i + 1)..Len(items) : items[j].id # id])

\* A loop that would set the whole item of a stored id whose link differs.
NewsWriteWholeItem(id, new_items, existing_data) ==
    IF id \in NewsIdsOf(existing_data)
    THEN IF NewsEntry(existing_data, id).link # NewsGet(new_items, id).link
         THEN <<[op |-> "item", id |-> id, item |-> NewsGet(new_items, id)]>>
         ELSE <<>>
    ELSE <<[op |-> "item", id |-> id, item |-> NewsGet(new_items, id)]>>

\* The store writes compare_and_update issues, in order:
\*   ref.child(id).child('link').set(link)   for a stored id whose link differs,
\*   ref.child(id).set(new_item)             for an id that is not stored.
NewsWriteFor(id, new_items, existing_data) ==
    IF id \in NewsIdsOf(existing_data)
    THEN IF NewsEntry(existing_data, id).link # NewsGet(new_items, id).link
         THEN <<[op |-> "link", id |-> id, item |-> NewsGet(new_items, id)]>>
         ELSE <<>>
    ELSE <<[op |-> "item", id |-> id, item |-> NewsGet(new_items, id)]>>

RECURSIVE NewsWritesOver(_, _, _)
NewsWritesOver(keys, new_items, existing_data) ==
    IF keys = <<>> THEN <<>>
    ELSE NewsWriteFor(Head(keys), new_items, existing_data)
         \o NewsWritesOver(Tail(keys), new_items, existing_data)

NewsWrites(new_items, existing_data) ==
    NewsWritesOver(NewsKeys(new_items), new_items, existing_data)

\* A write of a new item that would set the whole route to that item.
NewsApplyReplacingAll(entries, w) ==
    IF w.op = "link"
    THEN { IF e.id = w.id THEN [e EXCEPT !.link = w.item.link] ELSE e : e \in entries }
    ELSE {w.item}

\* The effect of one write on the stored entries.
NewsApply(entries, w) ==
    IF w.op = "link"
    THEN { IF e.id = w.id THEN [e EXCEPT !.link = w.item.link] ELSE e : e \in entries }
    ELSE { e \in entries : e.id # w.id } \cup {w.item}

RECURSIVE NewsApplyAll(_, _)
NewsApplyAll(entries, ws) ==
    IF ws = <<>> THEN entries ELSE NewsApplyAll(NewsApply(entries, Head(ws)), Tail(ws))

\* compare_and_update(new_items, existing_data) on the stored entries `entries`;
\* failAt = n > 0: the n-th write raises (0: none does). The writes before it stay.
compare_and_update(new_items, existing_data, entries, failAt) ==
    LET ws == NewsWrites(new_items, existing_data)
        raised == failAt \in 1..Len(ws)
        done == IF raised THEN SubSeq(ws, 1, failAt - 1) ELSE ws
    IN  [writes |-> done, raised |-> raised, after |-> NewsApplyAll(entries, done)]

\* get_existing_data: the stored entries, or {} when reading them fails.
get_existing_data(entries, readOk) == IF readOk THEN entries ELSE {}

\* main() of one of the two newspaper scripts:
\*   "api"  zpravodaj-app/tests/newspapers_to_app_API.py: update() raises when
\*          nothing was fetched or a write fails, main returns 1 then, else 0;
\*   "sync" zpravodaj-app/newspaper.py: synchronize() only logs an empty fetch,
\*          main logs an exception and returns nothing (exit status 0).
\* fetched = <<>> stands for fetch_newspapers returning None.
NewsMainOutcome(variant, entries, initOk, fetched, readOk, failAt) ==
    IF ~initOk
    THEN [step |-> "init", writes |-> <<>>, after |-> entries, failed |-> TRUE,
          exit |-> IF variant = "api" THEN 1 ELSE 0]
    ELSE IF fetched = <<>>
    THEN [step |-> "fetch", writes |-> <<>>, after |-> entries, failed |-> TRUE,
          exit |-> IF variant = "api" THEN 1 ELSE 0]
    ELSE LET out == compare_and_update(fetched, get_existing_data(entries, readOk),
                                       entries, failAt)
         IN  [step |-> "compare", writes |-> out.writes, after |-> out.after,
              failed |-> out.raised,
              exit |-> IF out.raised /\ variant = "api" THEN 1 ELSE 0]

NoNewsRun ==
    [kind |-> "none", items |-> <<>>, readOk |-> TRUE, before |-> {}, step |-> "none",
     writes |-> <<>>, failed |-> FALSE, exit |-> 0, reruns |-> 0, prevOk |-> FALSE,
     prevWrote |-> FALSE]

NewsRunOf(out, items, readOk, entries, reruns, prevOk, prevWrote) ==
    [kind |-> "main", items |-> items, readOk |-> readOk, before |-> entries,
     step |-> out.step, writes |-> out.writes, failed |-> out.failed,
     exit |-> out.exit, reruns |-> reruns, prevOk |-> prevOk, prevWrote |-> prevWrote]

NewsVariant == IF script = "newsApi" THEN "api" ELSE "sync"

\* One run of main() on a fresh fetch.
NewsMain ==
    /\ script \in {"newsApi", "newsSync"}
    /\ newsRun.kind = "none"
    /\ \E initOk \in BOOLEAN, fetched \in SeqsUpTo(NewsItems, MaxNew),
          readOk \in BOOLEAN, failAt \in 0..MaxNew :
          LET out == NewsMainOutcome(NewsVariant, newsStore, initOk, fetched,
                                     readOk, failAt)
          IN  /\ ~initOk => fetched = <<>>
              /\ fetched = <<>> => readOk /\ failAt = 0
              /\ failAt <= Len(NewsWrites(fetched, get_existing_data(newsStore, readOk)))
              /\ newsStore' = out.after
              /\ newsRun' = NewsRunOf(out, fetched, readOk, newsStore, 0, FALSE, FALSE)
    /\ UNCHANGED <<script, extraVars, contactsVars, docVars, portalVars>>

\* main() run again while the website still lists the same items.
NewsRerun ==
    /\ script \in {"newsApi", "newsSync"}
    /\ newsRun.kind = "main"
    /\ newsRun.step = "compare"
    /\ newsRun.reruns < MaxReruns
    /\ \E readOk \in BOOLEAN, failAt \in 0..MaxNew :
          LET out == NewsMainOutcome(NewsVariant, newsStore, TRUE, newsRun.items,
                                     readOk, failAt)
          IN  /\ failAt <= Len(NewsWrites(newsRun.items,
                                          get_existing_data(newsStore, readOk)))
              /\ newsStore' = out.after
              /\ newsRun' = NewsRunOf(out, newsRun.items, readOk, newsStore,
                                      newsRun.reruns + 1, ~newsRun.failed,
                                      newsRun.writes # <<>>)
    /\ UNCHANGED <<script, extraVars, contactsVars, docVars, portalVars>>

-----------------------------------------------------------------------------
(* Documents: DocumentSyncUpdater.update for the folder that is set *)

DocNames == {"f1", "f2"}
DocSizes == {1, 2}
FolderNames == {"F1", "F2"}

\* A document found by fetch_files (DocumentFile: name and file_size from the
\* page and the headers), with what happens when update() processes it:
\*   dl      "ok": _download_file_content returns the content; "none": it
\*           returns None (download failed, or the file is over the size limit)
\*   stmtOk  the UPDATE or INSERT statement of the file succeeds
Documents == [name : DocNames, size : DocSizes, dl : {"ok", "none"}, stmtOk : BOOLEAN]

\* A row of "File". The folder is named by the folder's name; content is
\* "manual" for a file put there by hand and "web" for one downloaded.
FileRow(id, name, size, folder, fromWebsite, content) ==
    [id |-> id, name |-> name, size |-> size, folder |-> folder,
     fromWebsite |-> fromWebsite, content |-> content]

\* Rows stored at the start: website files and manually added files.
InitialRowKinds ==
    { [name |-> n, fromWebsite |-> w] : n \in DocNames, w \in BOOLEAN }

InitialRows(folder, kinds, firstId) ==
    { FileRow(firstId + i - 1, kinds[i].name, 1, folder, kinds[i].fromWebsite,
              IF kinds[i].fromWebsite THEN "web" ELSE "manual") : i \in 1..Len(kinds) }

RowsOf(files, folder) == { r \in files : r.folder = folder }
NamesOf(rows) == { r.name : r \in rows }

\* existing_files = {row[1]: {...} for row in cur.fetchall()}: one row per name;
\* of several rows with one name the dict keeps the one fetched last, and the
\* SELECT has no ORDER BY, so it may be any of them.
ExistingChoices(files, folder) ==
    { f \in [NamesOf(RowsOf(files, folder)) -> RowsOf(files, folder)] :
        \A n \in DOMAIN f : f[n].name = n }

\* UPDATE "File" SET "fileType", "fileSize", "uploadDate", content, "mimeType",
\* "fromWebsite" = True WHERE id = %s
UpdateRow(files, id, doc) ==
    { IF r.id = id
      THEN [r EXCEPT !.size = doc.size, !.content = "web", !.fromWebsite = TRUE]
      ELSE r : r \in files }

\* INSERT INTO "File" (...) VALUES (..., "fromWebsite" = True)
InsertRow(files, id, doc, folder) ==
    files \cup {FileRow(id, doc.name, doc.size, folder, TRUE, "web")}

\* A DELETE without the condition on "fromWebsite".
DeleteRowsAnyOrigin(files, folder, names) ==
    { r \in files : ~(r.folder = folder /\ r.name \in names) }

\* DELETE FROM "File" WHERE "folderId" = %s AND name = ANY(%s) AND "fromWebsite" = True
DeleteRows(files, folder, names) ==
    { r \in files : ~(r.folder = folder /\ r.name \in names /\ r.fromWebsite) }

\* files_to_remove
FilesToRemove(existing_files, found_files) ==
    { n \in DOMAIN existing_files :
        existing_files[n].fromWebsite /\ n \notin found_files }

\* One pass of the loop "for doc in documents". acc holds the rows as the
\* transaction sees them, found_files, the next fresh id, whether a statement
\* has failed (the transaction is then aborted and every later statement fails
\* too), and the statements that were executed.
ProcessDoc(acc, doc, existing_files, folder, optimize) ==
    LET found == acc.found \cup {doc.name}
    IN  IF doc.name \in DOMAIN existing_files
        THEN IF optimize /\ existing_files[doc.name].size = doc.size
             THEN [acc EXCEPT !.found = found]
             ELSE IF doc.dl = "none"
             THEN [acc EXCEPT !.found = found \ {doc.name}, !.skipped = TRUE]
             ELSE IF acc.aborted \/ ~doc.stmtOk
             THEN [acc EXCEPT !.found = found, !.aborted = TRUE]
             ELSE [acc EXCEPT
                     !.found = found,
                     !.files = UpdateRow(acc.files, existing_files[doc.name].id, doc),
                     !.ops = Append(acc.ops, [op |-> "update", name |-> doc.name,
                                              id |-> existing_files[doc.name].id])]
        ELSE IF doc.dl = "none"
             THEN [acc EXCEPT !.found = found \ {doc.name}, !.skipped = TRUE]
             ELSE IF acc.aborted \/ ~doc.stmtOk
             THEN [acc EXCEPT !.found = found, !.aborted = TRUE]
             ELSE [acc EXCEPT
                     !.found = found,
                     !.files = InsertRow(acc.files, acc.nextId, doc, folder),
                     !.nextId = acc.nextId + 1,
                     !.ops = Append(acc.ops, [op |-> "insert", name |-> doc.name,
                                              id |-> acc.nextId])]

\* A loop that would go through the documents from the last to the first.
RECURSIVE ProcessDocsLastFirst(_, _, _, _, _)
ProcessDocsLastFirst(acc, documents, existing_files, folder, optimize) ==
    IF documents = <<>> THEN acc
    ELSE ProcessDocsLastFirst(
             ProcessDoc(acc, documents[Len(documents)], existing_files, folder, optimize),
             SubSeq(documents, 1, Len(documents) - 1), existing_files, folder, optimize)

RECURSIVE ProcessDocs(_, _, _, _, _)
ProcessDocs(acc, documents, existing_files, folder, optimize) ==
    IF documents = <<>> THEN acc
    ELSE ProcessDocs(ProcessDoc(acc, Head(documents), existing_files, folder, optimize),
                     Tail(documents), existing_files, folder, optimize)

\* update() on the database d for the folder named `folder`.
\*   connectOk   psycopg2.connect succeeds
\*   folderOk    the statements on "Folder" and the SELECT on "File" succeed
\*   documents   what fetch_files returns; <<>> stands for fetch_files raising
\*               (the request failed, or no document was found on the page)
\*   existing_files  the dict built from the stored rows
\*   optimize    the skip_unchanged option
\*   deleteOk    the DELETE statement succeeds
\* An exception that leaves the "with psycopg2.connect(...)" block rolls the
\* transaction back. conn.commit() on an aborted transaction commits nothing
\* and raises nothing.
DocsUpdateOutcome(d, folder, connectOk, folderOk, documents, existing_files, optimize, deleteOk) ==
    LET failed(step) ==
            [step |-> step, after |-> d, result |-> FALSE, ops |-> <<>>,
             aborted |-> FALSE, skipped |-> FALSE, removed |-> {}]
        acc0 == [files |-> d.files, found |-> {}, nextId |-> d.nextId,
                 aborted |-> FALSE, skipped |-> FALSE, ops |-> <<>>]
        acc == ProcessDocs(acc0, documents, existing_files, folder, optimize)
        files_to_remove == FilesToRemove(existing_files, acc.found)
        deleted == DeleteRows(acc.files, folder, files_to_remove)
    IN  IF ~connectOk THEN failed("connect")
        ELSE IF ~folderOk THEN failed("folder")
        ELSE IF documents = <<>> THEN failed("fetch")
        ELSE IF files_to_remove # {} /\ (acc.aborted \/ ~deleteOk)
        THEN [failed("delete") EXCEPT !.aborted = acc.aborted, !.skipped = acc.skipped]
        ELSE IF acc.aborted
        THEN [step |-> "commit", after |-> d, result |-> TRUE, ops |-> <<>>,
              aborted |-> TRUE, skipped |-> acc.skipped, removed |-> {}]
        ELSE [step |-> "commit",
              after |-> [files |-> IF files_to_remove # {} THEN deleted ELSE acc.files,
                         folders |-> d.folders \cup {folder},
                         nextId |-> acc.nextId],
              result |-> TRUE,
              ops |-> IF files_to_remove # {}
                      THEN Append(acc.ops, [op |-> "delete", names |-> files_to_remove])
                      ELSE acc.ops,
              aborted |-> FALSE, skipped |-> acc.skipped, removed |-> files_to_remove]

NoDocRun ==
    [kind |-> "none", folder |-> "", documents |-> <<>>, optimize |-> FALSE,
     before |-> [files |-> {}, folders |-> {}, nextId |-> 1], step |-> "none",
     result |-> FALSE, ops |-> <<>>, aborted |-> FALSE, skipped |-> FALSE,
     removed |-> {}, reruns |-> 0]

DocRunOf(out, folder, documents, optimize, d) ==
    [kind |-> "update", folder |-> folder, documents |-> documents,
     optimize |-> optimize, before |-> d, step |-> out.step, result |-> out.result,
     ops |-> out.ops, aborted |-> out.aborted, skipped |-> out.skipped,
     removed |-> out.removed, reruns |-> 0]

-----------------------------------------------------------------------------
(* Documents: main() over the configured folders *)

\* A folder of folders_config: its name, and whether its log file can be opened.
FolderConfigs == [name : FolderNames, logOk : BOOLEAN]

\* The configurations and inputs explored. Script "docs" runs main() on one
\* folder with every list of documents; script "docsMain" runs it on up to
\* NumFolders folders with at most one document each.
DocConfigs ==
    IF script = "docs"
    THEN { <<[name |-> "F1", logOk |-> TRUE]>> }
    ELSE SeqsUpTo(FolderConfigs, NumFolders) \ {<<>>}

DocumentLists ==
    IF script = "docs"
    THEN SeqsUpTo(Documents, MaxDocs)
    ELSE SeqsUpTo({ d \in Documents : d.name = "f1" /\ d.size = 1 }, 1)

InitialDbs ==
    IF script = "docs"
    THEN { [files |-> {}, folders |-> {}, nextId |-> 1] } \cup
         { [files |-> InitialRows("F1", kinds, 1), folders |-> {"F1"},
            nextId |-> Len(kinds) + 1] : kinds \in SeqsUpTo(InitialRowKinds, MaxRows) }
    ELSE { [files |-> {}, folders |-> {}, nextId |-> 1],
           [files |-> {FileRow(1, "f2", 1, "F1", TRUE, "web")}, folders |-> {"F1"},
            nextId |-> 2] }

NoDocMain ==
    [pc |-> "idle", config |-> <<>>, idx |-> 0, attempted |-> <<>>, failed |-> {},
     full_update |-> TRUE, exit |-> -1]

\* set_folder: the first folder of the configuration with that name.
SetFolderConfig(config, name) ==
    config[CHOOSE i \in 1..Len(config) :
              /\ config[i].name = name
              /\ \A j \in 1..(i - 1) : config[j].name # name]

\* main() up to the loop: ConfigLoader() and DocumentSyncUpdater(); an exception
\* in either makes main return 1.
DocsMainStart ==
    /\ script \in {"docs", "docsMain"}
    /\ docMain.pc = "start"
    /\ \E initOk \in BOOLEAN :
          docMain' = IF initOk
                     THEN [docMain EXCEPT !.pc = "loop", !.idx = 1]
                     ELSE [docMain EXCEPT !.pc = "done", !.exit = 1]
    /\ UNCHANGED <<script, extraVars, contactsVars, newsVars, portalVars, db, docRun>>

\* One pass of the loop over the folders: set_folder, then update().
\* setup_logging raises when the log file of the folder cannot be opened; set_folder
\* does not catch it, so it reaches the except of main, which returns 1.
DocsFolder ==
    /\ script \in {"docs", "docsMain"}
    /\ docMain.pc = "loop"
    /\ docMain.idx <= Len(docMain.config)
    /\ LET name == docMain.config[docMain.idx].name
           cfg == SetFolderConfig(docMain.config, name)
           attempted == Append(docMain.attempted, docMain.idx)
       IN  IF ~cfg.logOk
           THEN /\ docMain' = [docMain EXCEPT !.pc = "done", !.exit = 1,
                                              !.attempted = attempted,
                                              !.failed = @ \cup {docMain.idx}]
                /\ UNCHANGED <<db, docRun>>
           ELSE \E connectOk \in BOOLEAN, folderOk \in BOOLEAN,
                   documents \in DocumentLists,
                   existing_files \in ExistingChoices(db.files, name),
                   optimize \in BOOLEAN, deleteOk \in BOOLEAN :
                   LET out == DocsUpdateOutcome(db, name, connectOk, folderOk, documents,
                                                existing_files, optimize, deleteOk)
                   IN  /\ ~connectOk => folderOk
                       /\ (~connectOk \/ ~folderOk) => documents = <<>>
                       /\ documents = <<>> => ~optimize /\ deleteOk
                       /\ db' = out.after
                       /\ docRun' = DocRunOf(out, name, documents, optimize, db)
                       /\ docMain' = [docMain EXCEPT
                                        !.idx = @ + 1,
                                        !.attempted = attempted,
                                        !.failed = IF out.result THEN @
                                                   ELSE @ \cup {docMain.idx},
                                        !.full_update = @ /\ out.result]
    /\ UNCHANGED <<script, extraVars, contactsVars, newsVars, portalVars>>

\* update() called again for the folder after it returned True, while the page
\* lists the same documents (with the same sizes and the same download and
\* statement outcomes) and skip_unchanged is configured as before.
DocsRerun ==
    /\ script = "docs"
    /\ docMain.pc = "done"
    /\ docRun.kind = "update"
    /\ docRun.result
    /\ docRun.reruns < MaxReruns
    /\ \E connectOk \in BOOLEAN, folderOk \in BOOLEAN,
          existing_files \in ExistingChoices(db.files, docRun.folder),
          deleteOk \in BOOLEAN :
          LET out == DocsUpdateOutcome(db, docRun.folder, connectOk, folderOk,
                                       docRun.documents, existing_files,
                                       docRun.optimize, deleteOk)
          IN  /\ ~connectOk => folderOk /\ deleteOk
              /\ ~folderOk => deleteOk
              /\ db' = out.after
              /\ docRun' = [DocRunOf(out, docRun.folder, docRun.documents,
                                     docRun.optimize, db)
                               EXCEPT !.reruns = docRun.reruns + 1]
    /\ UNCHANGED <<script, extraVars, contactsVars, newsVars, portalVars, docMain>>

\* After the loop: 1 when some folder could not be updated, else 0.
DocsMainReturn ==
    /\ script \in {"docs", "docsMain"}
    /\ docMain.pc = "loop"
    /\ docMain.idx > Len(docMain.config)
    /\ docMain' = [docMain EXCEPT !.pc = "done",
                                  !.exit = IF docMain.full_update THEN 0 ELSE 1]
    /\ UNCHANGED <<script, extraVars, contactsVars, newsVars, portalVars, db, docRun>>

-----------------------------------------------------------------------------
(* App contacts: main() over the configured contact types *)

\* A contact type of the data configuration: whether set_contact_type accepts it
\* (it is complete and names a known parser), and whether its parser may return
\* no record.
TypeConfigs == [cfgOk : BOOLEAN, emptyOk : BOOLEAN]

MainContactItems == { c \in ContactItems : c.title = "A" /\ c.phone \in {NoneV, "p1"} }

MainStores ==
    { <<>>,
      <<NullItem, [k \in Fields |-> CASE k = "title" -> "A" [] k = "phone" -> "p1"
                                          [] OTHER -> Absent]>> }

NoCMain ==
    [pc |-> "idle", config |-> <<>>, stores0 |-> <<>>, stores |-> <<>>, idx |-> 0,
     attempted |-> <<>>, updated |-> <<>>, failed |-> {}, exit |-> -1]

\* A check of the configuration that would accept every contact type.
set_contact_type_accepts(cfg) == TRUE

\* set_contact_type: True when the type has every required attribute and names a
\* parser of PARSER_FUNCTIONS and its log can be set up; otherwise the exception
\* is logged and False is returned.
set_contact_type(cfg) == cfg.cfgOk

\* main() up to the loop: ConfigLoader(), the main logger, ContactDataUpdater().
ContactsMainStart ==
    /\ script = "contactsMain"
    /\ cMain.pc = "start"
    /\ \E initOk \in BOOLEAN :
          cMain' = IF initOk
                   THEN [cMain EXCEPT !.pc = "loop", !.idx = 1]
                   ELSE [cMain EXCEPT !.pc = "done", !.exit = 1]
    /\ UNCHANGED <<script, extraVars, store, run, newsVars, docVars, portalVars>>

\* One pass of the loop: set_contact_type (False on any configuration error),
\* and update() when it returned True.
ContactsType ==
    /\ script = "contactsMain"
    /\ cMain.pc = "loop"
    /\ cMain.idx <= Len(cMain.config)
    /\ LET i == cMain.idx
           cfg == cMain.config[i]
           attempted == Append(cMain.attempted, i)
       IN  IF ~set_contact_type(cfg)
           THEN cMain' = [cMain EXCEPT !.idx = i + 1, !.attempted = attempted,
                                       !.failed = @ \cup {i}]
           ELSE \E fetch \in {"fail", "ok"}, parsed \in SeqsUpTo(MainContactItems, 1),
                   readOk \in BOOLEAN, writeOk \in BOOLEAN :
                   LET out == update(cMain.stores[i], fetch, cfg.emptyOk, parsed,
                                     readOk, writeOk)
                   IN  /\ fetch # "ok" => parsed = <<>> /\ readOk /\ writeOk
                       /\ cMain' = [cMain EXCEPT
                                      !.idx = i + 1,
                                      !.attempted = attempted,
                                      !.updated = Append(@, i),
                                      !.stores[i] = out.after,
                                      !.failed = IF out.result THEN @ ELSE @ \cup {i}]
    /\ UNCHANGED <<script, extraVars, store, run, newsVars, docVars, portalVars>>

\* After the loop main returns 0.
ContactsMainReturn ==
    /\ script = "contactsMain"
    /\ cMain.pc = "loop"
    /\ cMain.idx > Len(cMain.config)
    /\ cMain' = [cMain EXCEPT !.pc = "done", !.exit = 0]
    /\ UNCHANGED <<script, extraVars, store, run, newsVars, docVars, portalVars>>

-----------------------------------------------------------------------------
(* Portal contacts: ContactUpdater.update and main *)

\* The columns of the main contact that are modelled: phone and email (each a
\* validated value or None).
MainData == [phone : {NoneV, "p1", "p2"}, email : {NoneV, "e1"}]
OfficeHoursLists == SeqsUpTo({"h1"}, MaxNew)
EmployeeLists == SeqsUpTo({"emp1", "emp2"}, MaxNew)

NoRow == [present |-> FALSE, phone |-> NoneV, email |-> NoneV]
ContactRow(main_data) ==
    [present |-> TRUE, phone |-> main_data.phone, email |-> main_data.email]

InitialPortalDbs ==
    { [contact |-> c, office_hours |-> h, employees |-> e] :
        c \in {NoRow, ContactRow([phone |-> "p1", email |-> "e1"]),
               ContactRow([phone |-> "p1", email |-> NoneV])},
        h \in {<<>>, <<"h1">>},
        e \in {<<>>, <<"emp1">>} }

\* parse_main_content raises when every value is None; parse_employees raises when
\* it finds no employee; parse_office_hours returns [] when there is no section.
PortalParseRaises(main_data, employees) ==
    \/ (main_data.phone = NoneV /\ main_data.email = NoneV)
    \/ employees = <<>>

\* update_database: the contact row is updated or inserted with the parsed values,
\* the office hours and the employees are deleted and inserted again. failAt = n > 0:
\* the n-th statement raises; the except rolls back and raises again.
\* The statements: 1 SELECT, 2 UPDATE or INSERT contact, 3 DELETE office_hours,
\* 4 INSERT office_hours, 5 DELETE employees, 6 INSERT employees (4 and 6 only
\* when there is something to insert).
PortalStatements(contact_data) ==
    <<1, 2, 3>> \o (IF contact_data.office_hours # <<>> THEN <<4>> ELSE <<>>)
    \o <<5>> \o (IF contact_data.employees # <<>> THEN <<6>> ELSE <<>>)

\* An update_database without the rollback: the statements before the failing
\* one would stay.
update_database_no_rollback(d, contact_data, failAt) ==
    IF failAt \in 1..Len(PortalStatements(contact_data))
    THEN LET reached == PortalStatements(contact_data)[failAt]
         IN  [after |-> [contact |-> IF reached > 2 THEN ContactRow(contact_data.main)
                                     ELSE d.contact,
                         office_hours |-> IF reached > 4 THEN contact_data.office_hours
                                          ELSE IF reached > 3 THEN <<>>
                                          ELSE d.office_hours,
                         employees |-> IF reached > 5 THEN <<>> ELSE d.employees],
              raised |-> TRUE]
    ELSE [after |-> [contact |-> ContactRow(contact_data.main),
                     office_hours |-> contact_data.office_hours,
                     employees |-> contact_data.employees],
          raised |-> FALSE]

update_database(d, contact_data, failAt) ==
    IF failAt \in 1..Len(PortalStatements(contact_data))
    THEN [after |-> d, raised |-> TRUE]
    ELSE [after |-> [contact |-> ContactRow(contact_data.main),
                     office_hours |-> contact_data.office_hours,
                     employees |-> contact_data.employees],
          raised |-> FALSE]

\* main(): ContactUpdater() (return 1 when it raises), update() (return 1 when it
\* raises), else 0. update(): ensure_tables_exist, fetch_and_parse_contact,
\* update_database; every exception is logged and raised again.
PortalMainOutcome(d, initOk, tablesOk, fetchOk, contact_data, failAt) ==
    IF ~initOk THEN [step |-> "init", after |-> d, exit |-> 1]
    ELSE IF ~tablesOk THEN [step |-> "tables", after |-> d, exit |-> 1]
    ELSE IF ~fetchOk THEN [step |-> "fetch", after |-> d, exit |-> 1]
    ELSE IF PortalParseRaises(contact_data.main, contact_data.employees)
    THEN [step |-> "parse", after |-> d, exit |-> 1]
    ELSE LET out == update_database(d, contact_data, failAt)
         IN  [step |-> "database", after |-> out.after,
              exit |-> IF out.raised THEN 1 ELSE 0]

NoPortalRun ==
    [kind |-> "none", step |-> "none",
     before |-> [contact |-> NoRow, office_hours |-> <<>>, employees |-> <<>>],
     fetchOk |-> TRUE, failAt |-> 0,
     data |-> [main |-> [phone |-> NoneV, email |-> NoneV], office_hours |-> <<>>,
               employees |-> <<>>],
     exit |-> -1]

PortalMain ==
    /\ script = "portal"
    /\ portalRun.kind = "none"
    /\ \E initOk \in BOOLEAN, tablesOk \in BOOLEAN, fetchOk \in BOOLEAN,
          main_data \in MainData, office_hours \in OfficeHoursLists,
          employees \in EmployeeLists, failAt \in 0..6 :
          LET contact_data == [main |-> main_data, office_hours |-> office_hours,
                               employees |-> employees]
              out == PortalMainOutcome(portalDb, initOk, tablesOk, fetchOk,
                                       contact_data, failAt)
          IN  /\ ~initOk => tablesOk
              /\ (~initOk \/ ~tablesOk) => fetchOk
              /\ out.step # "database" => failAt = 0
              /\ failAt <= Len(PortalStatements(contact_data))
              /\ portalDb' = out.after
              /\ out.step \in {"init", "tables", "fetch"} =>
                    contact_data = NoPortalRun.data
              /\ portalRun' = [kind |-> "main", step |-> out.step, before |-> portalDb,
                               fetchOk |-> fetchOk, failAt |-> failAt,
                               data |-> contact_data,
                               exit |-> out.exit]
    /\ UNCHANGED <<script, extraVars, contactsVars, newsVars, docVars>>

-----------------------------------------------------------------------------
(* Newspapers: the text of a list element, _parse_newspaper_item, fetch_newspapers *)

MaxLis == 2        \* list elements of the page that name a newspaper

\* Decimal digits as the regular expressions capture them.
ReleaseDigits == { <<1>>, <<0, 1>>, <<1, 2>>, <<1, 3>>, <<1, 0, 1>> }
YearDigits == { <<2, 0, 2, 3>>, <<2, 0, 2, 4>> }

\* int(match.group(n)) of a string of decimal digits.
RECURSIVE IntOf(_)
IntOf(digits) ==
    IF digits = <<>> THEN 0
    ELSE IntOf(SubSeq(digits, 1, Len(digits) - 1)) * 10 + digits[Len(digits)]

\* month_mapping, for the month names explored.
month_mapping == [m \in {"leden", "ledna", "prosinec"} |-> IF m = "prosinec" THEN 12 ELSE 1]

\* The lowered text of a list element: "zpravodaj <digits>/<4 digits>",
\* "zpravodaj <month name> <4 digits>", or a text neither pattern matches.
ListTexts ==
    [form : {"numeric"}, release : ReleaseDigits, month : {""}, year : YearDigits]
    \cup [form : {"month"}, release : {<<>>}, month : DOMAIN month_mapping, year : YearDigits]
    \cup [form : {"other"}, release : {<<>>}, month : {""}, year : {<<>>}]

ListElements == [text : ListTexts, link : NewsLinks]

\* _parse_newspaper_item: the items built for a list element, none when it
\* returns None.
parse_newspaper_item(li) ==
    IF li.text.form = "numeric"
    THEN << ParseNewspaperItem(IntOf(li.text.year), IntOf(li.text.release), li.link) >>
    ELSE IF li.text.form = "month"
    THEN << ParseNewspaperItem(IntOf(li.text.year), month_mapping[li.text.month], li.link) >>
    ELSE <<>>

\* fetch_newspapers: newspaper_items after the loop over the list elements.
RECURSIVE fetch_newspapers(_)
fetch_newspapers(lis) ==
    IF lis = <<>> THEN <<>>
    ELSE fetch_newspapers(SubSeq(lis, 1, Len(lis) - 1)) \o parse_newspaper_item(lis[Len(lis)])

NoFetch == [kind |-> "none", lis |-> <<>>, items |-> <<>>]

\* One call of fetch_newspapers() on a page.
NewsFetch ==
    /\ script = "newsFetch"
    /\ fetchRun.kind = "none"
    /\ \E lis \in SeqsUpTo(ListElements, MaxLis) :
          fetchRun' = [kind |-> "fetch", lis |-> lis, items |-> fetch_newspapers(lis)]
    /\ UNCHANGED <<script, contactsVars, newsVars, docVars, portalVars, race, cron, sched>>

-----------------------------------------------------------------------------
(* App contacts: calls of update() that overlap on one firebase_route *)

MaxEdits == 1      \* changes made to the stored list from outside the script

RaceProcs == {1, 2}

\* What the parsers return in the overlapping calls: one record with a phone.
RaceParsed ==
    { <<c>> : c \in { c \in ContactItems : c.phone \in Phones } }

\* The lists stored at the start of the overlapping calls.
RaceStores ==
    { <<NullItem, e>> : e \in { e \in StoredItems : e["title"] # Absent } }

\* A call in which existing_data would be read again when the list is written.
existing_data_reread(snapshot, current) == current

\* existing_data = self.get_existing_contacts(), handed to update_contacts: the
\* list as it was read, whatever the store holds when ref.set is called.
existing_data(snapshot, current) == snapshot

IdleProc ==
    [pc |-> "idle", parsed |-> <<>>, snapshot |-> <<>>, base |-> <<>>,
     wrote |-> FALSE, written |-> <<>>, result |-> FALSE]

NoRace == [procs |-> [p \in RaceProcs |-> IdleProc], edits |-> 0]

\* update() up to get_existing_contacts: the data is fetched and parsed and the
\* stored list is read (or the read raises and update returns False).
RaceRead(p) ==
    /\ script = "contactsRace"
    /\ race.procs[p].pc = "idle"
    /\ \E parsed \in RaceParsed, readOk \in BOOLEAN :
          race' = [race EXCEPT !.procs[p] =
                      IF readOk
                      THEN [@ EXCEPT !.pc = "read", !.parsed = parsed, !.snapshot = store]
                      ELSE [@ EXCEPT !.pc = "done", !.parsed = parsed]]
    /\ UNCHANGED <<script, store, run, cMain, newsVars, docVars, portalVars,
                   fetchRun, cron, sched>>

\* update_contacts on the list that was read: ref.set(changes['updates']) when a
\* change was detected.
RaceWrite(p) ==
    /\ script = "contactsRace"
    /\ race.procs[p].pc = "read"
    /\ \E writeOk \in BOOLEAN :
          LET q == race.procs[p]
              changes == Changes(q.parsed, existing_data(q.snapshot, store))
              after == IF changes.detected /\ writeOk
                       THEN FirebaseSet(changes.updates) ELSE store
          IN  /\ ~changes.detected => writeOk
              /\ store' = after
              /\ race' = [race EXCEPT !.procs[p] =
                              [@ EXCEPT !.pc = "done", !.base = store,
                                        !.wrote = changes.detected,
                                        !.written = after,
                                        !.result = writeOk]]
    /\ UNCHANGED <<script, run, cMain, newsVars, docVars, portalVars,
                   fetchRun, cron, sched>>

\* The stored list is edited by hand: coordinates are set on one entry.
ManualEdit ==
    /\ script = "contactsRace"
    /\ race.edits < MaxEdits
    /\ \E i \in 2..Len(store) :
          store' = [store EXCEPT ![i] = [@ EXCEPT !["coordinates"] = "c2"]]
    /\ race' = [race EXCEPT !.edits = @ + 1]
    /\ UNCHANGED <<script, run, cMain, newsVars, docVars, portalVars,
                   fetchRun, cron, sched>>

-----------------------------------------------------------------------------
(* Sync manager: SyncManager.save_schedule on the user's crontab *)

MaxCalls == 3      \* calls of save_schedule in one session

\* SCHEDULE_OPTIONS, for three of its six entries ("Kazdou hodinu" and "Jednou
\* denne" are written without their diacritics).
SCHEDULE_OPTIONS ==
    [n \in {"Nikdy", "Kazdou hodinu", "Jednou denne"} |->
        CASE n = "Nikdy" -> "" [] n = "Kazdou hodinu" -> "0 * * * *" [] OTHER -> "0 0 * * *"]

\* The lists of scripts that scripts_config.json may name: two files in two
\* folders, or two files of one folder where one name begins with the other.
ScriptLists == { {"a.py", "b.py"}, {"a.py", "a.pyc"} }

\* get_script_path: the absolute path of a script, as a sequence of pieces of
\* the string (folder, name, rest of the name).
get_script_path(script_name) ==
    CASE script_name = "a.py" -> <<"/s/x/", "a.py">>
      [] script_name = "b.py" -> <<"/s/y/", "b.py">>
      [] OTHER -> <<"/s/x/", "a.py", "c">>

\* venv_python: the interpreter of the scripts folder.
venv_python == <<"/s/venv/bin/python3">>

\* The command is the one save_schedule gives the job of this path.
IsCommandOf(path, command) == command = venv_python \o <<" ">> \o path

\* script_path in str(job.command): the path is a substring of the command.
PathInCommand(path, command) ==
    \E i \in 1..Len(command) :
        /\ i + Len(path) - 1 <= Len(command)
        /\ SubSeq(command, i, i + Len(path) - 1) = path

\* cron.new(command=f"{venv_python} {script_path}", comment=f"sync_manager_{script_name}")
\* with job.setall(schedule)
NewJob(script_name, schedule) ==
    [command |-> venv_python \o <<" ">> \o get_script_path(script_name),
     comment |-> script_name, schedule |-> schedule]

\* A job of the crontab that the sync manager did not make.
ForeignJob == [command |-> <<"/usr/bin/backup">>, comment |-> "", schedule |-> "0 0 * * *"]

\* The crontab and the plan found when the manager starts: no job or one job
\* for each script, with the plan file saying the same, and other jobs.
InitialSchedules ==
    UNION { { [scripts |-> L, plan |-> pl] : pl \in [L -> {"", "0 * * * *"}] } :
                L \in ScriptLists }

InitialCrontab(st, foreign) ==
    LET names == <<"a.py", "a.pyc", "b.py">>
        own == SelectSeq(names, LAMBDA n : n \in st.scripts /\ st.plan[n] # "")
    IN  (IF foreign THEN <<ForeignJob>> ELSE <<>>)
        \o [i \in 1..Len(own) |-> NewJob(own[i], st.plan[own[i]])]

\* What save_schedule does on the crontab `jobs` and the plan `config`: the
\* crontab and the plan afterwards, the plan file, and whether it returned.
\*   exists:  the script file is there
\*   writeOk: cron.write() returns (else it raises)
\*   saveOk:  save_config() returns (else it raises)
save_schedule(jobs, config, file, scripts, script_name, schedule_name, exists, writeOk, saveOk) ==
    LET failed == [cron |-> jobs, plan |-> config, file |-> file, ok |-> FALSE]
    IN  IF schedule_name \notin DOMAIN SCHEDULE_OPTIONS THEN failed
        ELSE IF script_name \notin scripts THEN failed
        ELSE IF ~exists THEN failed
        ELSE LET schedule == SCHEDULE_OPTIONS[schedule_name]
                 script_path == get_script_path(script_name)
                 kept == SelectSeq(jobs, LAMBDA job : ~PathInCommand(script_path, job.command))
                 written == IF schedule # ""
                            THEN Append(kept, NewJob(script_name, schedule)) ELSE kept
                 plan == [config EXCEPT ![script_name] = schedule]
             IN  IF ~writeOk THEN failed
                 ELSE IF ~saveOk
                 THEN [cron |-> written, plan |-> plan, file |-> file, ok |-> FALSE]
                 ELSE [cron |-> written, plan |-> plan, file |-> plan, ok |-> TRUE]

NoSched ==
    [scripts |-> {}, plan |-> <<>>, file |-> <<>>, calls |-> 0, allOk |-> TRUE,
     script_name |-> "", schedule_name |-> "", before |-> <<>>, ok |-> FALSE]

\* One call of save_schedule from the web page.
SaveSchedule ==
    /\ script = "syncManager"
    /\ sched.calls < MaxCalls
    /\ \E script_name \in sched.scripts \cup {"other.py"},
          schedule_name \in DOMAIN SCHEDULE_OPTIONS \cup {"Porad"},
          exists \in BOOLEAN, writeOk \in BOOLEAN, saveOk \in BOOLEAN :
          LET out == save_schedule(cron, sched.plan, sched.file, sched.scripts,
                                   script_name, schedule_name, exists, writeOk, saveOk)
          IN  /\ cron' = out.cron
              /\ sched' = [sched EXCEPT !.plan = out.plan, !.file = out.file,
                                        !.calls = @ + 1, !.allOk = @ /\ out.ok,
                                        !.script_name = script_name,
                                        !.schedule_name = schedule_name,
                                        !.before = cron, !.ok = out.ok]
    /\ UNCHANGED <<script, contactsVars, newsVars, docVars, portalVars, fetchRun, race>>

-----------------------------------------------------------------------------
(* Specification *)

Scripts ==
    {"contacts", "contactsMain", "newsApi", "newsSync", "docs", "docsMain", "portal",
     "newsFetch", "contactsRace", "syncManager"}

Init ==
    /\ script \in Scripts
    /\ store \in (IF script = "contacts" THEN InitialStores
                  ELSE IF script = "contactsRace" THEN RaceStores ELSE {<<>>})
    /\ run = NoRun
    /\ newsStore \in (IF script \in {"newsApi", "newsSync"} THEN InitialNewsStores ELSE {{}})
    /\ newsRun = NoNewsRun
    /\ db \in (IF script \in {"docs", "docsMain"} THEN InitialDbs
               ELSE {[files |-> {}, folders |-> {}, nextId |-> 1]})
    /\ docRun = NoDocRun
    /\ docMain \in (IF script \in {"docs", "docsMain"}
                    THEN { [NoDocMain EXCEPT !.pc = "start", !.config = c] : c \in DocConfigs }
                    ELSE {NoDocMain})
    /\ cMain \in (IF script = "contactsMain"
                  THEN UNION { { [NoCMain EXCEPT !.pc = "start", !.config = c,
                                                   !.stores0 = st, !.stores = st] :
                                     c \in [1..n -> TypeConfigs],
                                     st \in [1..n -> MainStores] } : n \in 1..NumTypes }
                  ELSE {NoCMain})
    /\ portalDb \in (IF script = "portal" THEN InitialPortalDbs
                     ELSE {NoPortalRun.before})
    /\ portalRun = NoPortalRun
    /\ fetchRun = NoFetch
    /\ race = NoRace
    /\ \E st \in (IF script = "syncManager" THEN InitialSchedules
                  ELSE {[scripts |-> {}, plan |-> <<>>]}), foreign \in BOOLEAN :
          /\ script # "syncManager" => ~foreign
          /\ cron = InitialCrontab(st, foreign)
          /\ sched = [NoSched EXCEPT !.scripts = st.scripts, !.plan = st.plan,
                                     !.file = st.plan]

Next ==
    \/ ContactsUpdate
    \/ ContactsRerun
    \/ ContactsMainStart
    \/ ContactsType
    \/ ContactsMainReturn
    \/ NewsMain
    \/ NewsRerun
    \/ DocsMainStart
    \/ DocsFolder
    \/ DocsMainReturn
    \/ DocsRerun
    \/ PortalMain
    \/ NewsFetch
    \/ \E p \in RaceProcs : RaceRead(p)
    \/ \E p \in RaceProcs : RaceWrite(p)
    \/ ManualEdit
    \/ SaveSchedule

Spec == Init /\ [][Next]_vars

-----------------------------------------------------------------------------
(* What the claims speak about, read off the last run of the app contacts     *)
(* updater.                                                                  *)

\* The run got as far as comparing the new data with the stored data.
Compared == run.kind = "update" /\ run.step \in {"write", "nochange"}

\* The new data as dicts, the stored entries the run read, the list given to ref.set.
NewData == [i \in 1..Len(run.parsed) |-> to_dict(run.parsed[i])]
StoredData == IF run.before = <<>> THEN <<>> ELSE Tail(run.before)
Written == run.changes.updates

TitlesOf(items) == { items[i]["title"] : i \in 1..Len(items) }

\* The record a list holds for a title: the one that comes last.
LastOf(items, t) ==
    LET last == CHOOSE i \in 1..Len(items) :
                    /\ items[i]["title"] = t
                    /\ \A j \in 1..Len(items) : items[j]["title"] = t => j <= i
    IN  items[last]

\* The positions of the written list (after the sentinel) that hold title t.
WrittenAt(t) == { i \in 2..Len(Written) : Written[i]["title"] = t }

InBoth == TitlesOf(NewData) \cap TitlesOf(StoredData)

\* C1: when update_contacts writes, every title present in the store and in the
\* new data is written with every stored field that the new record does not have
\* (absent, None or "") at its stored value. Where several stored entries or
\* several new records share a title, the record of the title is the last one.
C1_FieldPreservation ==
    (Compared /\ run.wrote) =>
        \A t \in InBoth :
            /\ WrittenAt(t) # {}
            /\ \A i \in WrittenAt(t) : \A k \in Fields :
                  LastOf(NewData, t)[k] = Absent =>
                      Written[i][k] = LastOf(StoredData, t)[k]

\* A successful write that kept a stored-only field (coordinates) of a title
\* whose phone it changed.
C1_Witness ==
    /\ Compared /\ run.wrote /\ run.result
    /\ \E t \in InBoth :
          /\ LastOf(StoredData, t)["coordinates"] = "c1"
          /\ LastOf(StoredData, t)["phone"] = "p1"
          /\ LastOf(NewData, t)["phone"] = "p2"
          /\ \E i \in 2..Len(store) :
                /\ store[i]["title"] = t
                /\ store[i]["coordinates"] = "c1"
                /\ store[i]["phone"] = "p2"

\* C6: update_contacts calls ref.set exactly when some title is added, modified
\* or removed; when the titles are the same on both sides and every record equals
\* its stored entry, nothing is written, the store is left alone and the update
\* returns True.
C6_WriteIffChanged ==
    Compared =>
        /\ run.wrote <=> \/ run.changes.added # <<>>
                         \/ run.changes.modified # <<>>
                         \/ run.changes.removed # <<>>
        /\ ( /\ TitlesOf(NewData) = TitlesOf(StoredData)
             /\ \A t \in TitlesOf(NewData) : LastOf(NewData, t) = LastOf(StoredData, t) )
           => (~run.wrote /\ run.result /\ store = run.before)

\* New data equal to a non-empty store: no write, success.
C6_Witness ==
    /\ Compared /\ ~run.wrote /\ run.result
    /\ Len(StoredData) = 2
    /\ TitlesOf(NewData) = TitlesOf(StoredData)
    /\ Cardinality(TitlesOf(NewData)) = 2
    /\ store = run.before

\* C7: a title in both the store and the new data, with a field whose new value
\* differs from the stored value, is put in changes['modified'], a change is
\* detected and written, and the written record has the new value of that field
\* and the stored value of every field the new record lacks.
C7_ChangeDetection ==
    Compared =>
        \A t \in InBoth : \A k \in Fields :
            ( /\ LastOf(NewData, t)[k] # Absent
              /\ LastOf(StoredData, t)[k] # Absent
              /\ LastOf(NewData, t)[k] # LastOf(StoredData, t)[k] )
            => /\ t \in Range(run.changes.modified)
               /\ run.changes.detected
               /\ run.wrote
               /\ \E i \in WrittenAt(t) :
                     /\ Written[i][k] = LastOf(NewData, t)[k]
                     /\ \A k2 \in Fields :
                           LastOf(NewData, t)[k2] = Absent =>
                               Written[i][k2] = LastOf(StoredData, t)[k2]

\* The only difference is the phone of one title, and it is written.
C7_Witness ==
    /\ Compared /\ run.result
    /\ run.changes.added = <<>> /\ run.changes.removed = <<>>
    /\ run.changes.modified = <<"A">>
    /\ LastOf(StoredData, "A")["phone"] = "p1"
    /\ \E i \in 2..Len(store) : store[i]["title"] = "A" /\ store[i]["phone"] = "p2"

\* C8: two new records with one title give exactly one written record for that
\* title, and every field the last of them has is written with its value.
C8_DuplicateLastWins ==
    (Compared /\ run.wrote) =>
        \A i \in 1..Len(NewData) : \A j \in (i + 1)..Len(NewData) :
            NewData[i]["title"] = NewData[j]["title"] =>
                LET t == NewData[j]["title"]
                    last == LastOf(NewData, t)
                IN  /\ Cardinality(WrittenAt(t)) = 1
                    /\ \A w \in WrittenAt(t) : \A k \in Fields :
                          last[k] # Absent => Written[w][k] = last[k]

\* Two new records of one title with different phones; the last phone is stored.
C8_Witness ==
    /\ Compared /\ run.wrote /\ run.result
    /\ Len(NewData) = 2
    /\ NewData[1]["title"] = NewData[2]["title"]
    /\ NewData[1]["phone"] = "p1" /\ NewData[2]["phone"] = "p2"
    /\ Len(store) = 2 /\ store[2]["phone"] = "p2"

\* C2: a run repeated with the same parsed records on the store that a successful
\* first run left finds nothing to do. App contacts: update_contacts puts no title
\* in added, modified or removed and does not call ref.set. Newspapers:
\* compare_and_update, given the stored entries, issues no write.
C2_Idempotence ==
    /\ (run.kind = "update" /\ run.reruns > 0 /\ run.prevOk) =>
          /\ ~run.changes.detected
          /\ run.changes.added = <<>>
          /\ run.changes.modified = <<>>
          /\ run.changes.removed = <<>>
          /\ ~run.wrote
          /\ store = run.before
    /\ (newsRun.kind = "main" /\ newsRun.reruns > 0 /\ newsRun.prevOk /\ newsRun.readOk) =>
          /\ newsRun.writes = <<>>
          /\ newsStore = newsRun.before

\* A first run that wrote two records over a different store, then the same
\* records again: compared, nothing detected.
C2_Witness ==
    /\ run.kind = "update" /\ run.reruns > 0 /\ run.prevOk /\ run.prevWrote
    /\ run.step = "nochange"
    /\ Len(run.parsed) = 2
    /\ Len(run.before) = 3

\* The same for the newspapers: a first run that wrote, and a second without writes.
C2_WitnessNews ==
    /\ newsRun.kind = "main" /\ newsRun.reruns > 0 /\ newsRun.prevOk /\ newsRun.readOk
    /\ newsRun.prevWrote
    /\ newsRun.writes = <<>>

\* C3: in the app contacts updater, the portal contacts updater and the documents
\* updater, a run whose fetch fails or gives nothing, or whose parser finds no
\* record of a kind that must not be empty, leaves the store as it was and
\* reports failure (update() returns False; the portal update() raises, so its
\* main returns 1).
C3_EmptyFetchSafety ==
    /\ ( /\ run.kind = "update"
         /\ (run.fetch # "ok" \/ (run.parsed = <<>> /\ ~run.emptyOk)) )
       => (store = run.before /\ ~run.wrote /\ ~run.result)
    /\ ( /\ portalRun.kind = "main"
         /\ portalRun.step \notin {"init", "tables"}
         /\ \/ ~portalRun.fetchOk
            \/ portalRun.data.employees = <<>>
            \/ (portalRun.data.main.phone = NoneV /\ portalRun.data.main.email = NoneV) )
       => (portalDb = portalRun.before /\ portalRun.exit = 1)
    /\ ( /\ docRun.kind = "update"
         /\ docRun.documents = <<>> )
       => (db = docRun.before /\ ~docRun.result)

\* The parser of a contact type that must not be empty found nothing while the
\* store held two entries: they are still there and update() returned False.
C3_Witness ==
    /\ run.kind = "update" /\ run.fetch = "ok" /\ run.parsed = <<>> /\ ~run.emptyOk
    /\ Len(run.before) = 3
    /\ store = run.before
    /\ ~run.result

\* The same for the documents of a folder that is not yet stored: fetch_files
\* raised after the INSERT into "Folder", and the folder is not there.
C3_WitnessDocs ==
    /\ docRun.kind = "update" /\ docRun.step = "fetch"
    /\ docRun.folder \notin db.folders
    /\ ~docRun.result

\* The same for the portal contacts: no employee parsed, the rows stay.
C3_WitnessPortal ==
    /\ portalRun.kind = "main" /\ portalRun.step = "parse"
    /\ portalRun.before.employees # <<>>
    /\ portalDb = portalRun.before
    /\ portalRun.exit = 1

\* C4: a File row that is stored with fromWebsite false when update() starts is
\* still stored when update() ends, whether or not its name is among the
\* documents found on the website.
C4_ManualRowsKept ==
    docRun.kind = "update" =>
        \A r \in docRun.before.files :
            ~r.fromWebsite => \E r2 \in db.files : r2.id = r.id

\* A committed run that deleted a website file that is no longer listed and
\* kept a manual file that is not listed either.
C4_Witness ==
    /\ docRun.kind = "update" /\ docRun.result /\ docRun.step = "commit"
    /\ docRun.removed # {}
    /\ \E r \in docRun.before.files :
          /\ r.fromWebsite
          /\ \A r2 \in db.files : r2.id # r.id
    /\ \E r \in docRun.before.files :
          /\ ~r.fromWebsite
          /\ r.folder = docRun.folder
          /\ \A i \in 1..Len(docRun.documents) : docRun.documents[i].name # r.name
          /\ r \in db.files

\* C5 (as claimed): when the processing of a file fails (its download gives
\* nothing, or its statement fails) or any other statement fails, update() leaves
\* the tables as they were and returns False.
C5_AllOrNothing ==
    ( /\ docRun.kind = "update"
      /\ (docRun.step # "commit" \/ docRun.aborted \/ docRun.skipped) )
    => (db = docRun.before /\ ~docRun.result)

\* C9 (as claimed): main returns a non-zero status when a category failed.
C9_ExitStatus ==
    /\ cMain.pc = "done" => (cMain.failed # {} => cMain.exit # 0)
    /\ docMain.pc = "done" => (docMain.failed # {} => docMain.exit # 0)
    /\ newsRun.kind = "main" => (newsRun.failed => newsRun.exit # 0)
    /\ portalRun.kind = "main" => (portalRun.step # "database" => portalRun.exit # 0)

\* C10 (as claimed): once main has entered its loop, it ends only after every
\* configured category has been attempted, in configuration order.
C10_AllCategoriesAttempted ==
    /\ (cMain.pc = "done" /\ cMain.idx >= 1) =>
          cMain.attempted = [i \in 1..Len(cMain.config) |-> i]
    /\ (docMain.pc = "done" /\ docMain.idx >= 1) =>
          docMain.attempted = [i \in 1..Len(docMain.config) |-> i]

NewsWritesTo(id) == { i \in 1..Len(newsRun.writes) : newsRun.writes[i].id = id }

\* The run read the stored entries and compared the fetched items with them.
NewsCompared == newsRun.kind = "main" /\ newsRun.step = "compare" /\ newsRun.readOk

\* C12: in compare_and_update, an id that is stored and among the new items gets
\* at most one write, a set of its link to the new link, and only when the links
\* differ; its year, release and other stored fields are as they were.
C12_OnlyLinkWritten ==
    NewsCompared =>
        \A e \in newsRun.before :
            e.id \in { newsRun.items[i].id : i \in 1..Len(newsRun.items) } =>
                LET new == NewsGet(newsRun.items, e.id)
                    ws == NewsWritesTo(e.id)
                IN  /\ Cardinality(ws) <= 1
                    /\ \A i \in ws : /\ newsRun.writes[i].op = "link"
                                     /\ newsRun.writes[i].item.link = new.link
                    /\ e.link = new.link => ws = {}
                    /\ (e.link # new.link /\ ~newsRun.failed) => ws # {}
                    /\ \E e2 \in newsStore :
                          /\ e2.id = e.id
                          /\ e2.year = e.year /\ e2.release = e.release
                          /\ e2.note = e.note
                          /\ e2.link = IF ws # {} THEN new.link ELSE e.link

\* A stored entry with a note whose link changed: one write, the note is kept.
C12_Witness ==
    /\ NewsCompared /\ ~newsRun.failed
    /\ \E e \in newsRun.before :
          /\ e.note = "n1" /\ e.link = "l1"
          /\ Cardinality(NewsWritesTo(e.id)) = 1
          /\ [e EXCEPT !.link = "l2"] \in newsStore

\* The place of the first record of a title in the new data.
FirstSeen(t) ==
    CHOOSE i \in 1..Len(NewData) :
        /\ NewData[i]["title"] = t
        /\ \A j \in 1..(i - 1) : NewData[j]["title"] # t

\* C13: the list update_contacts gives to ref.set starts with the null sentinel,
\* then holds one record for each distinct title of the new data, in the order
\* the titles were first seen: the new record for a title that is not stored, the
\* new record merged over the stored entry for a title that is; a title that is
\* stored only is in changes['removed'] and is not in the list.
C13_WrittenList ==
    (Compared /\ run.wrote) =>
        /\ Written[1] = NullItem
        /\ { Written[i]["title"] : i \in 2..Len(Written) } = TitlesOf(NewData)
        /\ \A i \in 2..Len(Written) : \A j \in (i + 1)..Len(Written) :
              FirstSeen(Written[i]["title"]) < FirstSeen(Written[j]["title"])
        /\ \A i \in 2..Len(Written) :
              LET t == Written[i]["title"]
              IN  IF t \in TitlesOf(StoredData)
                  THEN \A k \in Fields :
                          Written[i][k] = IF LastOf(NewData, t)[k] # Absent
                                          THEN LastOf(NewData, t)[k]
                                          ELSE LastOf(StoredData, t)[k]
                  ELSE Written[i] = LastOf(NewData, t)
        /\ \A t \in TitlesOf(StoredData) \ TitlesOf(NewData) :
              /\ t \in Range(run.changes.removed)
              /\ WrittenAt(t) = {}

\* Store [None, A, B], new data [B, B]: the list written is [None, B merged],
\* and A is removed.
C13_Witness ==
    /\ Compared /\ run.wrote /\ run.result
    /\ Len(StoredData) = 2
    /\ StoredData[1]["title"] = "A" /\ StoredData[2]["title"] = "B"
    /\ StoredData[2]["coordinates"] = "c1"
    /\ Len(NewData) = 2
    /\ NewData[1]["title"] = "B" /\ NewData[2]["title"] = "B"
    /\ run.changes.removed = <<"A">>
    /\ Len(store) = 2
    /\ store[1] = NullItem
    /\ store[2]["title"] = "B" /\ store[2]["coordinates"] = "c1"

\* The last update() of the documents committed what it executed.
DocsCommitted == docRun.kind = "update" /\ docRun.step = "commit" /\ ~docRun.aborted

\* The place of a statement kind in the order the claim gives.
OpRank(o) == CASE o.op = "delete" -> 0 [] o.op = "update" -> 1 [] OTHER -> 2

\* C14 (as claimed): among the statements of one run every DELETE comes before
\* every UPDATE and every UPDATE before every INSERT.
C14_DeleteUpdateInsert ==
    DocsCommitted =>
        \A i \in 1..Len(docRun.ops) : \A j \in (i + 1)..Len(docRun.ops) :
            OpRank(docRun.ops[i]) <= OpRank(docRun.ops[j])

\* C14 (amended): the UPDATE and INSERT statements of a run are executed in the
\* order of the documents on the page, an UPDATE for a name that is stored and an
\* INSERT for one that is not, and the one DELETE, when there is one, is the last
\* statement before the commit.
C14_DocumentOrderThenDelete ==
    DocsCommitted =>
        /\ \A i \in 1..Len(docRun.ops) :
              /\ docRun.ops[i].op = "delete" => i = Len(docRun.ops)
              /\ docRun.ops[i].op # "delete" =>
                    (docRun.ops[i].op = "update" <=>
                        docRun.ops[i].name \in
                            NamesOf(RowsOf(docRun.before.files, docRun.folder)))
        /\ \A i \in 1..Len(docRun.ops) : \A j \in (i + 1)..Len(docRun.ops) :
              docRun.ops[j].op # "delete" =>
                  \E a \in 1..Len(docRun.documents) :
                      \E b \in (a + 1)..Len(docRun.documents) :
                          /\ docRun.documents[a].name = docRun.ops[i].name
                          /\ docRun.documents[b].name = docRun.ops[j].name

\* An INSERT executed before an UPDATE, as the documents are listed.
C14_Witness ==
    /\ DocsCommitted /\ docRun.result
    /\ Len(docRun.ops) = 2
    /\ docRun.ops[1].op = "insert" /\ docRun.ops[1].name = docRun.documents[1].name
    /\ docRun.ops[2].op = "update" /\ docRun.ops[2].name = docRun.documents[2].name

\* An UPDATE followed by the DELETE.
C14_WitnessDelete ==
    /\ DocsCommitted /\ docRun.result
    /\ Len(docRun.ops) = 2
    /\ docRun.ops[1].op = "update"
    /\ docRun.ops[2].op = "delete"

\* C15 (as claimed): a title in both the store and the new data is in
\* changes['modified'] whenever some field differs, by value or by presence.
C15_ModifiedOnAnyDifference ==
    Compared =>
        \A t \in InBoth :
            (\E k \in Fields : LastOf(NewData, t)[k] # LastOf(StoredData, t)[k])
                => t \in Range(run.changes.modified)

\* C15 (amended): a title in both the store and the new data is in
\* changes['modified'] exactly when some field of the new record is not stored
\* or is stored with another value; a field that only the stored entry has does
\* not make the title modified.
C15_ModifiedIffNewFieldDiffers ==
    Compared =>
        \A t \in InBoth :
            t \in Range(run.changes.modified) <=>
                \E k \in Fields :
                    /\ LastOf(NewData, t)[k] # Absent
                    /\ LastOf(NewData, t)[k] # LastOf(StoredData, t)[k]

\* The stored entry has a phone, the new record of that title has none: the
\* title is not modified, nothing is written.
C15_Witness ==
    /\ Compared /\ run.step = "nochange" /\ run.result
    /\ Len(NewData) = 1 /\ Len(StoredData) = 1
    /\ NewData[1]["title"] = StoredData[1]["title"]
    /\ StoredData[1]["phone"] = "p1"
    /\ NewData[1]["phone"] = Absent
    /\ run.changes.modified = <<>>
    /\ store = run.before

\* The stored entries that have a title.
WellFormedStored == SelectSeq(StoredData, LAMBDA e : e["title"] # Absent)

\* C16 (as claimed): a stored entry without a title is ignored for the diff: the
\* titles removed, the detection of a change and so the write are what they are
\* for the store without that entry.
C16_MalformedIgnored ==
    Compared =>
        LET diff == Changes(run.parsed, <<NullItem>> \o WellFormedStored)
        IN  /\ run.changes.removed = diff.removed
            /\ run.changes.detected = diff.detected
            /\ run.wrote = diff.detected

\* C17 (as claimed): when a write of compare_and_update raises, the stored
\* newspaper entries are those from before the run.
C17_NewsAtomic ==
    (newsRun.kind = "main" /\ newsRun.step = "compare" /\ newsRun.failed) =>
        newsStore = newsRun.before

\* C18 (as claimed): when get_existing_data cannot read the stored entries, the
\* run writes nothing.
C18_ReadFailureAborts ==
    (newsRun.kind = "main" /\ newsRun.step = "compare" /\ ~newsRun.readOk) =>
        /\ newsRun.writes = <<>>
        /\ newsStore = newsRun.before

\* C19 (as claimed): a File row of the folder whose name is among the documents
\* listed on the page is still stored after update().
C19_ListedNeverDeleted ==
    docRun.kind = "update" =>
        \A r \in docRun.before.files :
            ( /\ r.folder = docRun.folder
              /\ \E i \in 1..Len(docRun.documents) : docRun.documents[i].name = r.name )
            => \E r2 \in db.files : r2.id = r.id

\* update() was called again after a successful run and committed.
DocsReran == DocsCommitted /\ docRun.reruns > 0

\* C20 (as claimed): update() run again on the same documents and the store the
\* successful run left executes no INSERT, UPDATE or DELETE and changes no row.
C20_RerunChangesNothing ==
    DocsReran => (docRun.ops = <<>> /\ db.files = docRun.before.files)

\* C21: a stored newspaper entry whose id is not among the new items gets no
\* write in compare_and_update and is stored unchanged after it, whether or not
\* the stored entries could be read and whether or not a write raised.
C21_AbsentIdsUntouched ==
    (newsRun.kind = "main" /\ newsRun.step = "compare") =>
        \A e \in newsRun.before :
            e.id \notin { newsRun.items[i].id : i \in 1..Len(newsRun.items) } =>
                /\ NewsWritesTo(e.id) = {}
                /\ e \in newsStore

\* A run that added a new item and left a stored entry of another id as it was.
C21_Witness ==
    /\ newsRun.kind = "main" /\ newsRun.step = "compare" /\ ~newsRun.failed
    /\ \E i \in 1..Len(newsRun.writes) : newsRun.writes[i].op = "item"
    /\ \E e \in newsRun.before :
          /\ e.id \notin { newsRun.items[i].id : i \in 1..Len(newsRun.items) }
          /\ e.note = "n1"
          /\ e \in newsStore
    /\ newsStore # newsRun.before

\* C22 (as claimed): update_contacts given no new record issues no write and
\* leaves the stored contacts.
C22_EmptyNewDataAborts ==
    (Compared /\ run.parsed = <<>>) => (~run.wrote /\ store = run.before)

\* C22 (amended): update_contacts given no new record classifies every stored
\* title as removed and, when there is one, gives the list [None] to ref.set,
\* after which no contact is stored; it writes nothing only when nothing was
\* stored.
C22_EmptyNewDataRemovesAll ==
    (Compared /\ run.parsed = <<>>) =>
        /\ Range(run.changes.removed) = TitlesOf(StoredData)
        /\ run.changes.added = <<>> /\ run.changes.modified = <<>>
        /\ Written = <<NullItem>>
        /\ run.wrote <=> StoredData # <<>>
        /\ (run.wrote /\ run.result) => store = <<>>
        /\ ~run.wrote => (store = run.before /\ run.result)

\* Two contacts stored, no new record: the write succeeded and nothing is stored.
C22_Witness ==
    /\ Compared /\ run.parsed = <<>> /\ run.emptyOk
    /\ Len(StoredData) = 2
    /\ run.wrote /\ run.result
    /\ store = <<>>

\* The last run of the portal contacts script called update_database.
PortalApplied == portalRun.kind = "main" /\ portalRun.step = "database"

\* C23: update_database is all-or-nothing. When a statement fails the exception
\* is raised again (main returns 1) and the contact row, the office hours and the
\* employees are as before the call; otherwise all three are the parsed data.
C23_PortalAllOrNothing ==
    PortalApplied =>
        /\ portalRun.exit = 1 <=> portalRun.failAt > 0
        /\ portalRun.exit = 1 => portalDb = portalRun.before
        /\ portalRun.exit = 0 =>
              /\ portalDb.contact = ContactRow(portalRun.data.main)
              /\ portalDb.office_hours = portalRun.data.office_hours
              /\ portalDb.employees = portalRun.data.employees

\* The DELETE of the employees fails after the contact row was updated and the
\* office hours were replaced: the three tables are as before.
C23_Witness ==
    /\ PortalApplied /\ portalRun.exit = 1
    /\ portalRun.failAt = 5
    /\ portalRun.before.contact.present
    /\ portalRun.before.contact # ContactRow(portalRun.data.main)
    /\ portalRun.before.office_hours # portalRun.data.office_hours
    /\ portalRun.before.employees # <<>>
    /\ portalDb = portalRun.before

\* A successful call: the three tables hold the parsed data.
C23_WitnessSuccess ==
    /\ PortalApplied /\ portalRun.exit = 0
    /\ portalDb # portalRun.before
    /\ portalDb.employees = portalRun.data.employees

\* C24 (as claimed): a column of the main contact whose parsed value is absent
\* keeps the value stored before update_database.
C24_AbsentKeepsStored ==
    (PortalApplied /\ portalRun.exit = 0 /\ portalRun.before.contact.present) =>
        \A col \in {"phone", "email"} :
            portalRun.data.main[col] = NoneV =>
                portalDb.contact[col] = portalRun.before.contact[col]

\* C25 (as claimed): with skip_unchanged on, a stored row of the folder whose
\* size is the size the page gives for its name is not updated, its name is not
\* deleted, and it is stored unchanged after the run.
C25_SkipUnchanged ==
    (DocsCommitted /\ docRun.optimize) =>
        \A r \in RowsOf(docRun.before.files, docRun.folder) :
            (\E i \in 1..Len(docRun.documents) :
                /\ docRun.documents[i].name = r.name
                /\ docRun.documents[i].size = r.size)
            => /\ r \in db.files
               /\ \A j \in 1..Len(docRun.ops) :
                     /\ docRun.ops[j].op = "update" => docRun.ops[j].id # r.id
                     /\ docRun.ops[j].op = "delete" => r.name \notin docRun.ops[j].names

\* C26 (as claimed): a row stored with fromWebsite false when update() starts is
\* stored after it with the same content, the same size and fromWebsite still
\* false, also when a document of its name is listed.
C26_ManualRowsNeverOverwritten ==
    docRun.kind = "update" =>
        \A r \in docRun.before.files : ~r.fromWebsite => r \in db.files

\* A folder holds at most one row for each name.
OneRowPerName(files, folder) ==
    \A r1 \in RowsOf(files, folder) : \A r2 \in RowsOf(files, folder) :
        r1.name = r2.name => r1.id = r2.id

\* C27 (as claimed): a folder that held at most one row for each name before
\* update() holds at most one row for each name after it.
C27_OneRowPerNameKept ==
    (docRun.kind = "update" /\ OneRowPerName(docRun.before.files, docRun.folder))
        => OneRowPerName(db.files, docRun.folder)

\* C28 (as claimed): every item fetch_newspapers collects has id = year*100 +
\* release, and two collected items that differ in year or in release have
\* different ids.
C28_IdFormulaInjective ==
    \A i \in 1..Len(fetchRun.items) :
        /\ fetchRun.items[i].id = (fetchRun.items[i].year * 100) + fetchRun.items[i].release
        /\ \A j \in 1..Len(fetchRun.items) :
              (\/ fetchRun.items[i].year # fetchRun.items[j].year
               \/ fetchRun.items[i].release # fetchRun.items[j].release)
              => fetchRun.items[i].id # fetchRun.items[j].id

\* A call of update() that wrote the list.
RaceWrote(p) ==
    race.procs[p].pc = "done" /\ race.procs[p].wrote /\ race.procs[p].result

\* The value the parsed records give for a field of the contact with a title.
ParsedValue(parsed, title, k) ==
    IF \E i \in 1..Len(parsed) : parsed[i].title = title
    THEN to_dict(parsed[CHOOSE i \in 1..Len(parsed) :
                           /\ parsed[i].title = title
                           /\ \A j \in (i + 1)..Len(parsed) : parsed[j].title # title])[k]
    ELSE Absent

\* C29: the list a call of update() writes is made of the parsed records and of
\* the list the call read, not of the list stored when it writes: every value
\* in the written list comes from the parsed record or from the entry of that
\* title as it was read. A change made between the read and the write is
\* replaced by the write; when nothing changed in between (the calls do not
\* overlap) the list read is the list the previous call left, and the write is
\* made from it.
C29_LostUpdate ==
    \A p \in RaceProcs :
        RaceWrote(p) =>
            LET q == race.procs[p]
            IN  /\ q.written = FirebaseSet(Changes(q.parsed, q.snapshot).updates)
                /\ \A i \in 2..Len(q.written) : \A k \in Fields :
                      q.written[i][k] # Absent =>
                          \/ q.written[i][k] = ParsedValue(q.parsed, q.written[i]["title"], k)
                          \/ \E j \in 2..Len(q.snapshot) :
                                /\ q.snapshot[j]["title"] = q.written[i]["title"]
                                /\ q.snapshot[j][k] = q.written[i][k]
                /\ q.base = q.snapshot =>
                      q.written = FirebaseSet(Changes(q.parsed, q.base).updates)

\* A hand edit made after the read is gone after the write: the entry had
\* coordinates "c2" when the call wrote, and the written entry of the same
\* title has not.
C29_Witness ==
    \E p \in RaceProcs :
        /\ RaceWrote(p)
        /\ race.procs[p].base # race.procs[p].snapshot
        /\ \E i \in 2..Len(race.procs[p].base) : \E j \in 2..Len(race.procs[p].written) :
              /\ race.procs[p].base[i]["coordinates"] = "c2"
              /\ race.procs[p].written[j]["title"] = race.procs[p].base[i]["title"]
              /\ race.procs[p].written[j]["coordinates"] # "c2"

\* Two calls overlap: the second call read before the first wrote, and its
\* write replaces the list the first call wrote.
C29_WitnessOverlap ==
    /\ race.edits = 0
    /\ RaceWrote(1) /\ RaceWrote(2)
    /\ race.procs[2].base = race.procs[1].written
    /\ race.procs[2].snapshot # race.procs[2].base
    /\ store = race.procs[2].written
    /\ store # FirebaseSet(Changes(race.procs[2].parsed, race.procs[2].base).updates)

\* Two calls that do not overlap: the second read the list the first wrote,
\* with a hand edit made before the first call read, and the edit is kept.
C29_WitnessSequential ==
    /\ race.edits = 1
    /\ RaceWrote(1) /\ RaceWrote(2)
    /\ race.procs[2].snapshot = race.procs[1].written
    /\ race.procs[2].base = race.procs[2].snapshot
    /\ \E i \in 2..Len(race.procs[1].snapshot) : race.procs[1].snapshot[i]["coordinates"] = "c2"
    /\ \E i \in 2..Len(store) : store[i]["coordinates"] = "c2"

\* The jobs of the crontab that run a script, in file order.
JobsOf(jobs, script_name) ==
    SelectSeq(jobs, LAMBDA job : IsCommandOf(get_script_path(script_name), job.command))

\* Every call of save_schedule so far returned, and there was one.
AllSaved == sched.calls > 0 /\ sched.allOk

\* C30 (as claimed): after calls of save_schedule that all succeeded, every
\* script has at most one job, the script of the last call has one job with the
\* selected expression (none for "Nikdy"), the saved plan entry of that script
\* is the expression, and the jobs of the other scripts are as before the call.
C30_OneJobPerScript ==
    AllSaved =>
        LET schedule == SCHEDULE_OPTIONS[sched.schedule_name]
            own == JobsOf(cron, sched.script_name)
        IN  /\ \A t \in sched.scripts : Len(JobsOf(cron, t)) <= 1
            /\ IF schedule = "" THEN own = <<>>
               ELSE Len(own) = 1 /\ own[1].schedule = schedule
            /\ sched.file[sched.script_name] = schedule
            /\ \A t \in sched.scripts \ {sched.script_name} :
                  JobsOf(cron, t) = JobsOf(sched.before, t)

====
